---- MODULE Spec2Model ----
(***************************************************************************)
(* Telemetry layer of the observability_comparison service:                *)
(*   config.py    backend selection, setup_telemetry and its three         *)
(*                pipelines, the metric facade, the structlog enricher     *)
(*   app/main.py  request middleware driving the facade, GET /metrics      *)
(*   main.py      the older middleware calling the instruments directly    *)
(* Requests are asyncio tasks: a task is suspended only at                 *)
(* `await call_next(request)`, so the code before and the code after the   *)
(* await are one atomic step each.  setup_telemetry is plain synchronous   *)
(* code guarded by a module-level flag; its callers are threads, which     *)
(* may be preempted between any two statements.                            *)
(***************************************************************************)
EXTENDS Integers, Sequences, FiniteSets, TLC

MaxReqs == 3        \* requests served
MaxCallers == 2     \* execution contexts that call setup_telemetry

Reqs == 1..MaxReqs
Callers == 1..MaxCallers
MainThread == 1     \* the thread that imports the application module

VARIABLES
    env,                    \* the process environment entry OBSERVABILITY_BACKEND
    entrypoint,             \* which module serves: "app.main" or "main"
    OBSERVABILITY_BACKEND,  \* config.OBSERVABILITY_BACKEND
    telemetry_configured,   \* config.telemetry_configured
    prometheus_registry,    \* config.prometheus_registry
    counter, histogram, gauge,              \* config.counter / histogram / gauge
    tracer_provider, logger_provider, meter_provider,  \* process-wide OTel providers (0 = none)
    root_handlers,          \* handlers of logging.getLogger()
    install_attempts,       \* how often each pipeline installation was attempted
    registry_names,         \* metric names registered in prometheus_client.REGISTRY
    spc,                    \* position of each setup_telemetry caller
    active_users,           \* app.main.active_users
    pc, route, response,    \* per request: position, route_attrs, response returned
    counter_series, histogram_series, gauge_series,   \* backend aggregates per label set
    gauge_calls,            \* last value handed to the gauge and how many calls were made
    metric_calls,           \* (instrument kind, call shape) pairs issued so far
    last_log                \* last record that went through register_otel_ids

telemetry == <<telemetry_configured, prometheus_registry, counter, histogram, gauge,
               tracer_provider, logger_provider, meter_provider, root_handlers,
               install_attempts, registry_names>>
serving == <<active_users, pc, route, response, counter_series, histogram_series,
             gauge_series, gauge_calls, metric_calls>>
vars == <<env, entrypoint, OBSERVABILITY_BACKEND, telemetry, spc, serving, last_log>>

----------------------------------------------------------------------------
(* Configuration                                                           *)

Unset == [present |-> FALSE, value |-> ""]
EnvValues == {Unset} \cup {[present |-> TRUE, value |-> v] : v \in {"signoz", "prometheus", ""}}

getenv(e, default) == IF e.present THEN e.value ELSE default

BackendDefault_prometheus(e) == getenv(e, "prometheus")
BackendFromEnv(e) == getenv(e, "signoz")

\* the comparison every component makes against the sentinel
IsSignoz(backend) == backend = "signoz"

----------------------------------------------------------------------------
(* Log enrichment                                                          *)

HexChars == <<"0", "1", "2", "3", "4", "5", "6", "7",
              "8", "9", "a", "b", "c", "d", "e", "f">>

RECURSIVE HexDigits(_)
HexDigits(n) == IF n < 16 THEN HexChars[n + 1]
                ELSE HexDigits(n \div 16) \o HexChars[(n % 16) + 1]

RECURSIVE ZeroPad(_, _)
ZeroPad(s, width) == IF Len(s) >= width THEN s ELSE ZeroPad("0" \o s, width)

\* format(n, "032x") / format(n, "016x")
format(n, width) == ZeroPad(HexDigits(n), width)

INVALID_SPAN == [is_recording |-> FALSE, trace_id |-> 0, span_id |-> 0]
\* spans the tracing SDK can make current: none, a span that was not sampled,
\* a recording span
SdkSpans == {INVALID_SPAN,
             [is_recording |-> FALSE, trace_id |-> 305419896, span_id |-> 4660],
             [is_recording |-> TRUE, trace_id |-> 305419896, span_id |-> 4660]}

\* trace.get_current_span(): without an installed tracer provider the API
\* hands out the invalid, non-recording span only
CurrentSpans(provider) == IF provider = 0 THEN {INVALID_SPAN} ELSE SdkSpans

register_otel_ids_valid(span, event_dict) ==
    IF span.trace_id # 0
    THEN [trace_id |-> format(span.trace_id, 32), span_id |-> format(span.span_id, 16)]
         @@ event_dict
    ELSE event_dict
register_otel_ids(span, event_dict) ==
    IF span.is_recording
    THEN [trace_id |-> format(span.trace_id, 32), span_id |-> format(span.span_id, 16)]
         @@ event_dict
    ELSE event_dict

\* logger.debug(event, **kw): the processors before the enricher add the
\* level, then register_otel_ids runs on the event dict
Emit(span, kw) ==
    LET event_dict == [level |-> "debug"] @@ kw
    IN [span |-> span, event_dict |-> event_dict,
        record |-> register_otel_ids(span, event_dict)]

NoLog == [span |-> INVALID_SPAN, event_dict |-> [event |-> ""], record |-> [event |-> ""]]

----------------------------------------------------------------------------
(* setup_telemetry                                                         *)

NoInstrument == [kind |-> "none", id |-> 0]
MetricNames == {"http_requests_total", "http_request_duration_seconds", "active_users"}

Bump(field) == [install_attempts EXCEPT ![field] = @ + 1]

\* if telemetry_configured: return
SetupCheck_unguarded(t) ==
    /\ spc[t] = "idle"
    /\ spc' = [spc EXCEPT ![t] = "tracing"]
    /\ UNCHANGED <<env, entrypoint, OBSERVABILITY_BACKEND, telemetry, serving, last_log>>
SetupCheck(t) ==
    /\ spc[t] = "idle"
    /\ spc' = [spc EXCEPT ![t] = IF telemetry_configured THEN "returned" ELSE "tracing"]
    /\ UNCHANGED <<env, entrypoint, OBSERVABILITY_BACKEND, telemetry, serving, last_log>>

\* trace.set_tracer_provider keeps the first provider and only warns afterwards
SetupTracing(t) ==
    /\ spc[t] = "tracing"
    /\ IF ~IsSignoz(OBSERVABILITY_BACKEND)
       THEN UNCHANGED <<tracer_provider, install_attempts>>
       ELSE /\ tracer_provider' = IF tracer_provider = 0 THEN t ELSE tracer_provider
            /\ install_attempts' = Bump("tracing")
    /\ spc' = [spc EXCEPT ![t] = "logging"]
    /\ UNCHANGED <<env, entrypoint, OBSERVABILITY_BACKEND, telemetry_configured,
                   prometheus_registry, counter, histogram, gauge, logger_provider,
                   meter_provider, root_handlers, registry_names, serving, last_log>>

SetupLogging(t) ==
    /\ spc[t] = "logging"
    /\ IF ~IsSignoz(OBSERVABILITY_BACKEND)
       THEN /\ root_handlers' = Append(root_handlers, "FileHandler")
            /\ UNCHANGED logger_provider
       ELSE /\ logger_provider' = IF logger_provider = 0 THEN t ELSE logger_provider
            /\ root_handlers' = Append(root_handlers, "LoggingHandler")
    /\ install_attempts' = Bump("logging")
    /\ spc' = [spc EXCEPT ![t] = "metrics"]
    /\ UNCHANGED <<env, entrypoint, OBSERVABILITY_BACKEND, telemetry_configured,
                   prometheus_registry, counter, histogram, gauge, tracer_provider,
                   meter_provider, registry_names, serving, last_log>>

\* The instruments a call constructs are new objects: they carry the caller's id.
\* prometheus_client refuses to register a metric name twice in one registry
\* (ValueError out of the Counter constructor, hence out of setup_telemetry).
SetupMetrics(t) ==
    /\ spc[t] = "metrics"
    /\ install_attempts' = Bump("metrics")
    /\ IF ~IsSignoz(OBSERVABILITY_BACKEND)
       THEN /\ prometheus_registry' = "REGISTRY"
            /\ UNCHANGED meter_provider
            /\ IF registry_names = {}
               THEN /\ registry_names' = MetricNames
                    /\ last_log' = Emit(INVALID_SPAN,
                                        [event |-> "configured Prometheus native metrics"])
                    /\ spc' = [spc EXCEPT ![t] = "assign"]
               ELSE /\ spc' = [spc EXCEPT ![t] = "raised"]
                    /\ UNCHANGED <<registry_names, last_log>>
       ELSE /\ meter_provider' = IF meter_provider = 0 THEN t ELSE meter_provider
            /\ last_log' = Emit(INVALID_SPAN, [event |-> "configured OpenTelemetry metrics"])
            /\ spc' = [spc EXCEPT ![t] = "assign"]
            /\ UNCHANGED <<prometheus_registry, registry_names>>
    /\ UNCHANGED <<env, entrypoint, OBSERVABILITY_BACKEND, telemetry_configured,
                   counter, histogram, gauge, tracer_provider, logger_provider,
                   root_handlers, serving>>

\* counter, histogram, gauge = metrics_instruments; telemetry_configured = True
SetupAssign(t) ==
    /\ spc[t] = "assign"
    /\ LET kind == IF ~IsSignoz(OBSERVABILITY_BACKEND) THEN "prometheus" ELSE "otel"
       IN /\ counter' = [kind |-> kind, id |-> t]
          /\ histogram' = [kind |-> kind, id |-> t]
          /\ gauge' = [kind |-> kind, id |-> t]
    /\ telemetry_configured' = TRUE
    /\ last_log' = Emit(INVALID_SPAN,
                        [event |-> "configured application telemetry successfully",
                         backend |-> OBSERVABILITY_BACKEND])
    /\ spc' = [spc EXCEPT ![t] = "returned"]
    /\ UNCHANGED <<env, entrypoint, OBSERVABILITY_BACKEND, prometheus_registry,
                   tracer_provider, logger_provider, meter_provider, root_handlers,
                   install_attempts, registry_names, serving>>

----------------------------------------------------------------------------
(* Metric facade                                                           *)

\* the two call shapes: instrument.op(value, attributes) and
\* instrument.labels(**attributes).op(value)
FacadeShape(backend) == IF IsSignoz(backend) THEN "inline" ELSE "labels"

\* app/main.py goes through the facade, main.py calls the instruments directly
CallShape(ep, backend) == IF ep = "app.main" THEN FacadeShape(backend) ELSE "inline"

\* an OpenTelemetry instrument has add/record/set(value, attributes) and no
\* labels(); a prometheus_client metric has labels() and no add/record, and
\* its set() takes the value only
Accepts(instrument, shape) ==
    \/ instrument.kind = "otel" /\ shape = "inline"
    \/ instrument.kind = "prometheus" /\ shape = "labels"

Value(series, attributes) == IF attributes \in DOMAIN series THEN series[attributes] ELSE 0

Put(series, attributes, v) ==
    [a \in DOMAIN series \cup {attributes} |-> IF a = attributes THEN v ELSE series[a]]

increment_counter_unlabelled(series, amount, attributes) ==
    [a \in DOMAIN series \cup {attributes} |-> Value(series, a) + amount]
increment_counter(series, amount, attributes) ==
    Put(series, attributes, Value(series, attributes) + amount)

\* one more observation in the series of the label set
record_histogram(series, attributes) ==
    Put(series, attributes, Value(series, attributes) + 1)

set_gauge(series, value, attributes) == Put(series, attributes, value)

----------------------------------------------------------------------------
(* Route handlers and the framework's response conversion                  *)

Get(path) == [method |-> "GET", path |-> path]
\* the routes requests are drawn from (GET /slow differs from GET /fast by its
\* delay only)
Routes == {Get("/fast"), Get("/error"), Get("/metrics")}

Body(type, status_code, text, content) ==
    [type |-> type, status_code |-> status_code, text |-> text, content |-> content]
HTTPException(status_code, detail) == Body("HTTPException", status_code, detail, {})
Returned(value) == [raised |-> FALSE, value |-> value]
Raised(exc) == [raised |-> TRUE, value |-> exc]

\* generate_latest(registry): the exposition names every registered metric
generate_latest(names) == Body("Response", 200, "text/plain", names)

metrics(registry, names) ==
    IF registry = "None"
    THEN Returned(HTTPException(400, "Prometheus observability platform not configured"))
    ELSE Returned(generate_latest(names))

Handler(ep, rt, registry, names) ==
    CASE rt.path = "/fast" -> Returned(Body("dict", 0, "fast_response", {}))
      [] rt.path = "/slow" -> Returned(Body("dict", 0, "slow_response", {}))
      [] rt.path = "/error" -> Raised(HTTPException(500, "error_response"))
      [] rt.path = "/metrics" /\ ep = "app.main" -> metrics(registry, names)
      [] OTHER -> Raised(HTTPException(404, "Not Found"))

\* FastAPI: a raised HTTPException becomes a response with its status code; a
\* returned Response is sent as it is; any other returned value is
\* JSON-encoded into a response with the route's default status 200
Respond(result) ==
    IF result.raised
    THEN [status |-> result.value.status_code, json |-> TRUE,
          text |-> result.value.text, content |-> {}]
    ELSE IF result.value.type = "Response"
    THEN [status |-> result.value.status_code, json |-> FALSE,
          text |-> result.value.text, content |-> result.value.content]
    ELSE [status |-> 200, json |-> TRUE, text |-> result.value.text, content |-> {}]

NoRoute == [method |-> "", path |-> ""]
NoResponse == [status |-> 0, json |-> FALSE, text |-> "", content |-> {}]

----------------------------------------------------------------------------
(* handle_incoming_requests                                                *)

AfterEntered(n) == n + 1
AfterCompleted_kept(n) == n
AfterCompleted(n) == n - 1

Issued(instrument, shape) == [kind |-> instrument.kind, shape |-> shape]

\* lines up to `await call_next(request)`
Entered(r) ==
    /\ pc[r] = "new"
    /\ r > 1 => pc[r - 1] # "new"
    /\ spc[MainThread] = "returned"
    /\ \E rt \in Routes, span \in CurrentSpans(tracer_provider) :
         LET shape == CallShape(entrypoint, OBSERVABILITY_BACKEND)
             ok == Accepts(gauge, shape)
             n == AfterEntered(active_users)
         IN /\ route' = [route EXCEPT ![r] = rt]
            /\ active_users' = n
            /\ metric_calls' = metric_calls \cup {Issued(gauge, shape)}
            /\ gauge_series' = IF ok THEN set_gauge(gauge_series, n, rt) ELSE gauge_series
            /\ gauge_calls' = IF ok THEN [count |-> gauge_calls.count + 1, value |-> n]
                              ELSE gauge_calls
            /\ last_log' = IF ok THEN Emit(span, [event |-> "Request received",
                                                   method |-> rt.method, path |-> rt.path])
                           ELSE last_log
            /\ pc' = [pc EXCEPT ![r] = IF ok THEN "dispatched" ELSE "call_error"]
    /\ UNCHANGED <<env, entrypoint, OBSERVABILITY_BACKEND, telemetry, spc, response,
                   counter_series, histogram_series>>

\* an exception leaves `await call_next(request)`: nothing after it runs
HandlerRaise_finally(r) ==
    /\ pc[r] = "dispatched"
    /\ pc' = [pc EXCEPT ![r] = "failed"]
    /\ active_users' = AfterCompleted(active_users)
    /\ UNCHANGED <<env, entrypoint, OBSERVABILITY_BACKEND, telemetry, spc, route, response,
                   counter_series, histogram_series, gauge_series, gauge_calls,
                   metric_calls, last_log>>
HandlerRaise(r) ==
    /\ pc[r] = "dispatched"
    /\ pc' = [pc EXCEPT ![r] = "failed"]
    /\ UNCHANGED <<env, entrypoint, OBSERVABILITY_BACKEND, telemetry, spc, active_users,
                   route, response, counter_series, histogram_series, gauge_series,
                   gauge_calls, metric_calls, last_log>>

\* call_next returned a response: the lines after the await
Completed(r) ==
    /\ pc[r] = "dispatched"
    /\ \E span \in CurrentSpans(tracer_provider) :
         LET rt == route[r]
             resp == Respond(Handler(entrypoint, rt, prometheus_registry, registry_names))
             shape == CallShape(entrypoint, OBSERVABILITY_BACKEND)
             okC == Accepts(counter, shape)
             okH == okC /\ Accepts(histogram, shape)
             okG == okH /\ Accepts(gauge, shape)
             n == AfterCompleted(active_users)
         IN /\ response' = [response EXCEPT ![r] = resp]
            /\ metric_calls' = metric_calls \cup {Issued(counter, shape)}
                                 \cup (IF okC THEN {Issued(histogram, shape)} ELSE {})
                                 \cup (IF okH THEN {Issued(gauge, shape)} ELSE {})
            /\ counter_series' = IF okC THEN increment_counter(counter_series, 1, rt)
                                 ELSE counter_series
            /\ histogram_series' = IF okH THEN record_histogram(histogram_series, rt)
                                   ELSE histogram_series
            /\ active_users' = IF okH THEN n ELSE active_users
            /\ gauge_series' = IF okG THEN set_gauge(gauge_series, n, rt) ELSE gauge_series
            /\ gauge_calls' = IF okG THEN [count |-> gauge_calls.count + 1, value |-> n]
                              ELSE gauge_calls
            /\ last_log' = IF okG THEN Emit(span, [event |-> "Request processed",
                                                    method |-> rt.method, path |-> rt.path,
                                                    status_code |-> resp.status])
                           ELSE last_log
            /\ pc' = [pc EXCEPT ![r] = IF okG THEN "done" ELSE "call_error"]
    /\ UNCHANGED <<env, entrypoint, OBSERVABILITY_BACKEND, telemetry, spc, route>>

----------------------------------------------------------------------------
(* The program                                                             *)

Init ==
    /\ env \in EnvValues
    /\ entrypoint \in {"app.main", "main"}
    /\ OBSERVABILITY_BACKEND = BackendFromEnv(env)
    /\ telemetry_configured = FALSE
    /\ prometheus_registry = "None"
    /\ counter = NoInstrument /\ histogram = NoInstrument /\ gauge = NoInstrument
    /\ tracer_provider = 0 /\ logger_provider = 0 /\ meter_provider = 0
    /\ root_handlers = <<"StreamHandler">>
    /\ install_attempts = [tracing |-> 0, logging |-> 0, metrics |-> 0]
    /\ registry_names = {}
    /\ spc = [t \in Callers |-> "idle"]
    /\ active_users = 0
    /\ pc = [r \in Reqs |-> "new"]
    /\ route = [r \in Reqs |-> NoRoute]
    /\ response = [r \in Reqs |-> NoResponse]
    /\ counter_series = << >> /\ histogram_series = << >> /\ gauge_series = << >>
    /\ gauge_calls = [count |-> 0, value |-> 0]
    /\ metric_calls = {}
    /\ last_log = NoLog

\* The service: the importing thread runs setup_telemetry (app/main.py line 12)
\* and the event loop then serves requests.
Next ==
    \/ SetupCheck(MainThread)
    \/ SetupTracing(MainThread)
    \/ SetupLogging(MainThread)
    \/ SetupMetrics(MainThread)
    \/ SetupAssign(MainThread)
    \/ \E r \in Reqs : Entered(r)
    \/ \E r \in Reqs : HandlerRaise(r)
    \/ \E r \in Reqs : Completed(r)

Spec == Init /\ [][Next]_vars

\* Startup with several execution contexts calling setup_telemetry, each once,
\* in any interleaving (a call that starts after another returned included).
StartupNext ==
    \/ \E t \in Callers : SetupCheck(t)
    \/ \E t \in Callers : SetupTracing(t)
    \/ \E t \in Callers : SetupLogging(t)
    \/ \E t \in Callers : SetupMetrics(t)
    \/ \E t \in Callers : SetupAssign(t)

StartupSpec == Init /\ [][StartupNext]_vars

----------------------------------------------------------------------------
(* Properties                                                              *)

Push == IsSignoz(OBSERVABILITY_BACKEND)
Completions(a) == Cardinality({r \in Reqs : pc[r] = "done" /\ route[r] = a})
\* requests that ran `active_users += 1` and not `active_users -= 1`
Counted == {r \in Reqs : pc[r] \in {"dispatched", "failed", "call_error"}}
Quiescent == /\ \A r \in Reqs : pc[r] \in {"new", "done"}
             /\ \E r \in Reqs : pc[r] = "done"

\* C1: once every request that entered has completed and no handler failed,
\* the in-flight count is 0 and every written active_users series holds 0.
C1_GaugeBackToZero ==
    Quiescent => /\ active_users = 0
                 /\ \A a \in DOMAIN gauge_series : gauge_series[a] = 0

\* C2: a request through route a that completes adds exactly 1 to the
\* http_requests_total series of a and one observation to the histogram
\* series of a, and leaves the series of every other route alone; at any
\* state the counter of a equals the number of completed requests to a.
C2_Step ==
    \A r \in Reqs :
        (pc[r] # "done" /\ pc'[r] = "done") =>
            \A a \in Routes :
                LET d == IF a = route[r] THEN 1 ELSE 0
                IN /\ Value(counter_series', a) = Value(counter_series, a) + d
                   /\ Value(histogram_series', a) = Value(histogram_series, a) + d
C2_Totals ==
    \A a \in Routes : /\ Value(counter_series, a) = Completions(a)
                      /\ Value(histogram_series, a) = Completions(a)
C2_OnePerCompletion == [][C2_Step]_vars /\ []C2_Totals
C2_Witness ==
    /\ Completions(Get("/fast")) = 2
    /\ Completions(Get("/error")) = 1
    /\ Value(counter_series, Get("/fast")) = 2

\* C3: a call of setup_telemetry that starts once telemetry is configured
\* returns at the guard: it changes no instrument, registry handle, provider,
\* root handler or mode, attempts no installation or construction and logs
\* nothing.
C3_Step ==
    \A t \in Callers :
        (spc[t] = "idle" /\ spc'[t] # "idle" /\ telemetry_configured) =>
            /\ spc'[t] = "returned"
            /\ UNCHANGED <<telemetry, OBSERVABILITY_BACKEND, last_log>>
C3_SecondCallNoOp == [][C3_Step]_vars
C3_Witness ==
    /\ telemetry_configured
    /\ \E t, u \in Callers : /\ t # u
                             /\ spc[t] = "returned" /\ spc[u] = "returned"
                             /\ gauge.id = t
    /\ install_attempts.metrics = 1
    /\ Len(root_handlers) = 2

\* C4: a completed GET /metrics of app/main.py has status 200 and a body
\* naming the three metrics in pull mode, and a 4xx status in push mode.
C4_MetricsEndpoint ==
    \A r \in Reqs :
        (entrypoint = "app.main" /\ pc[r] = "done" /\ route[r] = Get("/metrics")) =>
            IF Push
            THEN response[r].status \in 400..499
            ELSE response[r].status = 200 /\ MetricNames \subseteq response[r].content

\* C5: however the callers of setup_telemetry interleave, each pipeline is
\* installed at most once and the instruments are constructed at most once.
C5_InstalledOnce ==
    /\ install_attempts.tracing <= 1
    /\ install_attempts.logging <= 1
    /\ install_attempts.metrics <= 1

\* C6: the record leaving register_otel_ids has trace_id and span_id (32 and
\* 16 hex digits) exactly when the current span is recording, never without
\* an installed tracer provider, and every other field as it came in.
C6_EnricherIff ==
    LET span == last_log.span
        before == last_log.event_dict
        out == last_log.record
    IN /\ span.is_recording <=> "trace_id" \in DOMAIN out
       /\ span.is_recording <=> "span_id" \in DOMAIN out
       /\ span.is_recording => Len(out.trace_id) = 32 /\ Len(out.span_id) = 16
       /\ DOMAIN out \ {"trace_id", "span_id"} = DOMAIN before
       /\ \A f \in DOMAIN before : out[f] = before[f]
       /\ tracer_provider = 0 => out = before
C6_Witness ==
    /\ last_log.span.is_recording
    /\ last_log.event_dict.event = "Request processed"
    /\ last_log.record.trace_id = "00000000000000000000000012345678"
    /\ last_log.record.span_id = "0000000000001234"

PushSelected == /\ tracer_provider # 0 /\ logger_provider # 0 /\ meter_provider # 0
                /\ gauge.kind = "otel" /\ prometheus_registry = "None"
PullSelected == /\ tracer_provider = 0 /\ logger_provider = 0 /\ meter_provider = 0
                /\ gauge.kind = "prometheus" /\ prometheus_registry = "REGISTRY"

C8_Count == active_users = Cardinality(Counted) /\ active_users >= 0
C8_Step ==
    gauge_calls'.count # gauge_calls.count =>
        /\ gauge_calls'.value = active_users'
        /\ gauge_calls'.value = Cardinality({r \in Reqs :
                                   pc'[r] \in {"dispatched", "failed", "call_error"}})
C8_AbsoluteCount == []C8_Count /\ [][C8_Step]_vars
C8_Witness ==
    /\ active_users = 2
    /\ \E r \in Reqs : pc[r] = "done"
    /\ Cardinality({r \in Reqs : pc[r] = "dispatched"}) = 2
    /\ gauge_calls.value = 2

\* C9: when an exception leaves call_next, the counter, the histogram, the
\* in-flight count and the gauge stay as they are; the request stays failed,
\* and from then on active_users exceeds the number of requests in flight by
\* at least 1, so it is never 0 again.
C9_Step ==
    \A r \in Reqs :
        /\ (pc[r] = "dispatched" /\ pc'[r] = "failed") =>
               UNCHANGED <<counter_series, histogram_series, active_users,
                           gauge_series, gauge_calls>>
        /\ pc[r] = "failed" => pc'[r] = "failed"
C9_Elevated ==
    (\E r \in Reqs : pc[r] = "failed") =>
        /\ active_users >= 1 + Cardinality({r \in Reqs : pc[r] = "dispatched"})
        /\ active_users # 0
C9_FailureLeaks == [][C9_Step]_vars /\ []C9_Elevated
C9_Witness ==
    /\ \E r \in Reqs : pc[r] = "failed"
    /\ \E r \in Reqs : pc[r] = "done"
    /\ \A r \in Reqs : pc[r] \in {"failed", "done"}
    /\ active_users >= 1

\* C10: in both backend modes every metric call of the middleware has the
\* call shape of the instruments built at setup, so none fails and the
\* per-route counter and histogram totals are those of the completed requests
\* whatever the mode.
C10_ShapesMatch ==
    /\ \A c \in metric_calls : Accepts(c, c.shape)
    /\ \A r \in Reqs : pc[r] # "call_error"

====
